---- MODULE Spec2Model ----
(***************************************************************************)
(* Model of the +/-2% depth estimation of spread-dashboard:                *)
(*   src/app.py                    the dashboard variant                    *)
(*   src/lambda/lambda_handler.py  the scheduled-job variant                *)
(*                                                                         *)
(* Numbers.  The code computes with Python ints and floats; the model      *)
(* computes with exact integers and exact rationals [num, den].  TLC's     *)
(* integers are 32 bit, so the registry of the model carries scaled-down   *)
(* decimals (ETH 18 -> 2, USDT 6 -> 0, USDC 6 -> 1) and the seed prices    *)
(* are drawn so that the raw bounds ceil(usd / price * 10^decimals) fit.   *)
(* Every formula of the code takes the decimals and the price as inputs    *)
(* and is translated with them as parameters.                              *)
(***************************************************************************)
EXTENDS Integers, Sequences, FiniteSets, TLC

VARIABLES
  variant,             \* "app" (src/app.py) or "lambda" (lambda_handler.py)
  curve,               \* the oracle's slippage-vs-amount curve of this run
  store,               \* the depths table, in insertion order
  idx,                 \* position of the orchestrator in TOKENS
  pc,                  \* position of the orchestrator in the loop body
  visited,             \* symbols whose loop body was entered, in order
  data,                \* app.py: the rows of the table shown
  successful_updates,  \* lambda_handler: the counter reported
  buy_raw, sell_raw,   \* results of the two searches of the current asset
  buy_depth, sell_depth,
  spc,                 \* position inside find_depth_amount
  small_quote,         \* the seed quote: None when unavailable
  sell_price,          \* seed price
  min_amount, max_amount,
  start_range,         \* the interval the loop started with (None before)
  warm_read,           \* what the warm-start read of the store gave (None before)
  iter,                \* loop index of the binary search
  calls,               \* amounts requested from the oracle in this invocation
  probe,               \* the last loop probe: amount, quote
  ret,                 \* value returned by find_depth_amount
  how,                 \* which return statement returned it
  openConns,           \* connections opened and never closed
  faults,              \* store failures injected so far
  inserts,             \* symbols passed to insert_depths, one per call
  searches,            \* <<symbol, is_sell_side>> of every find_depth_amount call
  raised,              \* symbols whose loop body ended in the except clause
  checked              \* app.py: symbols whose freshness read returned

orchVars   == <<idx, pc, visited, data, successful_updates,
                buy_raw, sell_raw, buy_depth, sell_depth>>
searchVars == <<spc, small_quote, sell_price, min_amount, max_amount, start_range,
                warm_read, iter, calls, probe, ret, how>>
histVars   == <<openConns, faults, inserts, searches, raised, checked>>
vars       == <<variant, curve, store, orchVars, searchVars, histVars>>

\* Python's None, and a value that is not None
None == <<>>
Some(x) == <<x>>

-----------------------------------------------------------------------------
(* Bounds of the model *)

\* store failures (connect or query/commit) injected per run
MaxFaults == 1
\* the instant of the run, in minutes; timestamps are minutes
Now == 10

-----------------------------------------------------------------------------
(* Configuration *)

TOKENS ==
  << [symbol |-> "ETH",  decimals |-> 2],
     [symbol |-> "USDT", decimals |-> 0] >>

USD_TOKEN == [symbol |-> "USDC", decimals |-> 1]

TARGET_SLIPPAGE       == [num |-> 20, den |-> 1000]
TOLERANCE_FROM_TARGET == [num |-> 1,  den |-> 1000]
MAX_ITERATIONS        == 20
MIN_AMOUNT_USD        == 10000
MAX_AMOUNT_USD        == 500000000
RANGE_FACTOR_LOW      == [num |-> 1, den |-> 2]
RANGE_FACTOR_HIGH     == [num |-> 2, den |-> 1]
\* timedelta(minutes=5)
FRESH_MINUTES         == 5

Symbols == {TOKENS[i].symbol : i \in 1..Len(TOKENS)}

-----------------------------------------------------------------------------
(* Arithmetic *)

RECURSIVE Pow10(_)
Pow10(d) == IF d = 0 THEN 1 ELSE 10 * Pow10(d - 1)

RECURSIVE GCD(_, _)
GCD(a, b) == IF b = 0 THEN a ELSE GCD(b, a % b)

Max(a, b) == IF a >= b THEN a ELSE b
Min(a, b) == IF a <= b THEN a ELSE b

\* math.ceil(a / b), a >= 0, b > 0
CeilDiv(a, b) == (a \div b) + (IF a % b = 0 THEN 0 ELSE 1)

\* math.ceil(a * m / n) without forming a * m
CeilMulDiv(a, m, n) == (a \div n) * m + CeilDiv((a % n) * m, n)

\* a rational in lowest terms
Rat(n, d) == LET g == GCD(n, d) IN [num |-> n \div g, den |-> d \div g]

\* sign of n1/d1 - n2/d2 (n >= 0, d > 0), by continued fractions: no product
\* of two large numbers is formed
RECURSIVE FracCmp(_, _, _, _)
FracCmp(n1, d1, n2, d2) ==
  LET q1 == n1 \div d1
      q2 == n2 \div d2
      r1 == n1 % d1
      r2 == n2 % d2
  IN  IF q1 < q2 THEN -1
      ELSE IF q1 > q2 THEN 1
      ELSE IF r1 = 0 /\ r2 = 0 THEN 0
      ELSE IF r1 = 0 THEN -1
      ELSE IF r2 = 0 THEN 1
      ELSE 0 - FracCmp(d1, r1, d2, r2)

-----------------------------------------------------------------------------
(* The depth store *)

\* a depth in USD: a rational
ZeroDepth == [num |-> 0, den |-> 1]

StoreOutcomes == {"ok", "connect_fail", "query_fail"}

\* SELECT ... WHERE token = %s ORDER BY timestamp DESC LIMIT 1
Latest(st, sym) ==
  LET I == {i \in 1..Len(st) : st[i].token = sym}
  IN  IF I = {} THEN None
      ELSE Some(st[CHOOSE i \in I : \A j \in I :
                      \/ st[j].timestamp < st[i].timestamp
                      \/ (st[j].timestamp = st[i].timestamp /\ j <= i)])

\* a get_latest_depths whose SELECT has no WHERE token = %s: the latest row
\* of the whole table
get_latest_depths_any_token(v, o, st, sym) ==
  LET I == 1..Len(st)
      newest == IF I = {} THEN None
                ELSE Some(st[CHOOSE i \in I : \A j \in I :
                                \/ st[j].timestamp < st[i].timestamp
                                \/ (st[j].timestamp = st[i].timestamp /\ j <= i)])
  IN  IF o = "connect_fail" THEN [raised |-> TRUE, value |-> None, open |-> 0]
      ELSE IF o = "ok" THEN [raised |-> FALSE, value |-> newest, open |-> 0]
      ELSE IF v = "app" THEN [raised |-> TRUE, value |-> None, open |-> 1]
      ELSE [raised |-> FALSE, value |-> None, open |-> 0]

\* get_latest_depths under store outcome o: what the caller gets, and how
\* many connections the call leaves open
get_latest_depths(v, o, st, sym) ==
  IF o = "connect_fail" THEN [raised |-> TRUE, value |-> None, open |-> 0]
  ELSE IF o = "ok" THEN [raised |-> FALSE, value |-> Latest(st, sym), open |-> 0]
  ELSE IF v = "app" THEN [raised |-> TRUE, value |-> None, open |-> 1]
  ELSE [raised |-> FALSE, value |-> None, open |-> 0]

\* an insert_depths that overwrites the asset's row when it has one
insert_depths_upsert(v, o, st, sym, b, s) ==
  LET row == [token |-> sym, buy_depth |-> b, sell_depth |-> s, timestamp |-> Now]
      I   == {i \in 1..Len(st) : st[i].token = sym}
  IN  IF o # "ok" THEN [raised |-> TRUE, store |-> st, open |-> 0]
      ELSE [raised |-> FALSE,
            store  |-> IF I = {} THEN Append(st, row)
                       ELSE [i \in 1..Len(st) |-> IF i \in I THEN row ELSE st[i]],
            open   |-> 0]

\* insert_depths under store outcome o
insert_depths(v, o, st, sym, b, s) ==
  IF o = "connect_fail" THEN [raised |-> TRUE, store |-> st, open |-> 0]
  ELSE IF o = "ok" THEN
    [raised |-> FALSE,
     store  |-> Append(st, [token |-> sym, buy_depth |-> b, sell_depth |-> s,
                            timestamp |-> Now]),
     open   |-> 0]
  ELSE IF v = "app" THEN [raised |-> TRUE, store |-> st, open |-> 1]
  ELSE [raised |-> FALSE, store |-> st, open |-> 0]

\* get_historical_depths under store outcome o (app.py only)
get_historical_depths(o) ==
  IF o = "connect_fail" THEN [raised |-> TRUE, open |-> 0]
  ELSE IF o = "ok" THEN [raised |-> FALSE, open |-> 0]
  ELSE [raised |-> TRUE, open |-> 1]

-----------------------------------------------------------------------------
(* The oracle: a synthetic venue whose slippage is piecewise constant in the *)
(* USD notional of the requested amount                                      *)

\* sell_usd / buy_usd of the quotes of a level
LevelRatio(level) ==
  CASE level = "neg"    -> [num |-> 51,  den |-> 50]
    [] level = "zero"   -> [num |-> 1,   den |-> 1]
    [] level = "edgeLo" -> [num |-> 981, den |-> 1000]
    [] level = "hit"    -> [num |-> 49,  den |-> 50]
    [] level = "edgeHi" -> [num |-> 979, den |-> 1000]
    [] level = "high"   -> [num |-> 19,  den |-> 20]
    [] level = "inf"    -> [num |-> 1,   den |-> 1]
    [] level = "noprice" -> [num |-> 1,  den |-> 1]

\* the levels in order of slippage
LevelRank(level) ==
  CASE level = "neg"    -> 0
    [] level = "zero"   -> 1
    [] level = "edgeLo" -> 2
    [] level = "hit"    -> 3
    [] level = "edgeHi" -> 4
    [] level = "high"   -> 5
    [] level = "inf"    -> 6
    [] level = "noprice" -> 6

Curves ==
  { [t1 |-> 25000, t2 |-> 100000, l1 |-> "neg",    l2 |-> "zero",   l3 |-> "edgeLo"],
    [t1 |-> 25000, t2 |-> 100000, l1 |-> "edgeHi", l2 |-> "high",   l3 |-> "inf"],
    [t1 |-> 30000, t2 |-> 33000,  l1 |-> "zero",   l2 |-> "hit",    l3 |-> "high"],
    [t1 |-> 25000, t2 |-> 25000,  l1 |-> "edgeLo", l2 |-> "edgeLo", l3 |-> "inf"],
    [t1 |-> 25000, t2 |-> 25000,  l1 |-> "high",   l2 |-> "high",   l3 |-> "zero"],
    [t1 |-> 25000, t2 |-> 25000,  l1 |-> "zero",   l2 |-> "zero",   l3 |-> "noprice"] }

Monotone(c) ==
  /\ LevelRank(c.l1) <= LevelRank(c.l2)
  /\ LevelRank(c.l2) <= LevelRank(c.l3)

\* the level the venue answers with for `amount` raw units of a sell token
LevelAt(c, amount, price, dec) ==
  IF amount < CeilMulDiv(c.t1, Pow10(dec), price) THEN c.l1
  ELSE IF amount < CeilMulDiv(c.t2, Pow10(dec), price) THEN c.l2
  ELSE c.l3

\* the quote fetch_quote parses from the venue's answer
fetch_quote(c, sell_token, buy_token, sell_amount, price) ==
  LET level == LevelAt(c, sell_amount, price, sell_token.decimals)
      r     == LevelRatio(level)
  IN  [sell_amount |-> sell_amount,
       buy_amount  |-> IF level = "inf" THEN 0 ELSE 2 * sell_amount,
       sell_token_price_in_usd |-> 2 * r.num * Pow10(sell_token.decimals),
       buy_token_price_in_usd  |-> IF level = "noprice" THEN 0
                                   ELSE r.den * Pow10(buy_token.decimals)]

\* seed prices the venue may report for a sell token
SeedPrices(sell_token) ==
  IF sell_token.decimals = 0 THEN {0, 1, 100}
  ELSE IF sell_token.decimals = 1 THEN {0, 10}
  ELSE {0, 1000}

-----------------------------------------------------------------------------
(* compute_slippage *)

\* a compute_slippage that answers 0.0 when buy_usd = 0
compute_slippage_zero_when_degenerate(quote, sell_dec, buy_dec) ==
  LET k1 == quote.sell_token_price_in_usd * Pow10(buy_dec)
      k2 == quote.buy_token_price_in_usd * Pow10(sell_dec)
      g  == GCD(k1, k2)
  IN  IF quote.buy_amount = 0 \/ quote.buy_token_price_in_usd = 0
      THEN [inf |-> FALSE, a |-> 1, k1 |-> 1, b |-> 1, k2 |-> 1]
      ELSE [inf |-> FALSE,
            a |-> quote.sell_amount, k1 |-> k1 \div g,
            b |-> quote.buy_amount,  k2 |-> k2 \div g]

\* 1 - sell_usd / buy_usd, kept as the ratio sell_usd / buy_usd =
\* (a * k1) / (b * k2) with k1 / k2 in lowest terms; inf when buy_usd = 0
compute_slippage(quote, sell_dec, buy_dec) ==
  LET k1 == quote.sell_token_price_in_usd * Pow10(buy_dec)
      k2 == quote.buy_token_price_in_usd * Pow10(sell_dec)
      g  == GCD(k1, k2)
  IN  IF quote.buy_amount = 0 \/ quote.buy_token_price_in_usd = 0
      THEN [inf |-> TRUE, a |-> 0, k1 |-> 0, b |-> 1, k2 |-> 1]
      ELSE [inf |-> FALSE,
            a |-> quote.sell_amount, k1 |-> k1 \div g,
            b |-> quote.buy_amount,  k2 |-> k2 \div g]

\* sign of slippage - t, for a rational 0 <= t < 1
SlipCmp(s, t) ==
  LET c == Rat(t.den - t.num, t.den)   \* slippage < t  <=>  ratio > c
  IN  IF s.inf THEN 1
      ELSE IF s.a = 0 \/ s.k1 = 0 THEN (IF c.num > 0 THEN 1 ELSE 0)
      ELSE 0 - FracCmp(s.a, s.b, c.num * s.k2, c.den * s.k1)

RatAdd(x, y) == Rat(x.num * y.den + y.num * x.den, x.den * y.den)
RatSub(x, y) == Rat(x.num * y.den - y.num * x.den, x.den * y.den)

\* abs(slippage - TARGET_SLIPPAGE) <= TOLERANCE_FROM_TARGET
WithinToleranceInclusive(s) ==
  /\ SlipCmp(s, RatSub(TARGET_SLIPPAGE, TOLERANCE_FROM_TARGET)) >= 0
  /\ SlipCmp(s, RatAdd(TARGET_SLIPPAGE, TOLERANCE_FROM_TARGET)) <= 0

\* abs(slippage - TARGET_SLIPPAGE) < TOLERANCE_FROM_TARGET
WithinTolerance(s) ==
  /\ SlipCmp(s, RatSub(TARGET_SLIPPAGE, TOLERANCE_FROM_TARGET)) = 1
  /\ SlipCmp(s, RatAdd(TARGET_SLIPPAGE, TOLERANCE_FROM_TARGET)) = -1

\* slippage < TARGET_SLIPPAGE
BelowTarget(s) == SlipCmp(s, TARGET_SLIPPAGE) = -1

-----------------------------------------------------------------------------
(* find_depth_amount: bounds *)

\* math.ceil(usd / sell_price * 10 ** decimals)
DefaultBound(usd, price, dec) == CeilMulDiv(usd, Pow10(dec), price)

\* math.ceil(last_depth / sell_price * 10 ** decimals * factor)
NarrowBound(depth, factor, price, dec) ==
  CeilMulDiv(depth.num, factor.num * Pow10(dec), depth.den * factor.den * price)

\* last_data[1] if is_sell_side else last_data[0]
LastDepth(last_data, is_sell_side) ==
  IF is_sell_side THEN last_data.sell_depth ELSE last_data.buy_depth

\* the narrowing without max(min_amount, ...) and min(max_amount, ...): the
\* narrowed bounds replace the default ones
NarrowedRangeUnclamped(last_data, is_sell_side, price, dec) ==
  IF last_data # None /\ LastDepth(last_data[1], is_sell_side).num > 0 /\ price > 0
  THEN LET d == LastDepth(last_data[1], is_sell_side)
       IN  [min |-> NarrowBound(d, RANGE_FACTOR_LOW, price, dec),
            max |-> NarrowBound(d, RANGE_FACTOR_HIGH, price, dec)]
  ELSE [min |-> DefaultBound(MIN_AMOUNT_USD, price, dec),
        max |-> DefaultBound(MAX_AMOUNT_USD, price, dec)]

\* the interval the loop starts with, from the seed price and the row
\* get_latest_depths returned (None: no row)
NarrowedRange(last_data, is_sell_side, price, dec) ==
  LET dmin == DefaultBound(MIN_AMOUNT_USD, price, dec)
      dmax == DefaultBound(MAX_AMOUNT_USD, price, dec)
  IN  IF last_data # None /\ LastDepth(last_data[1], is_sell_side).num > 0 /\ price > 0
      THEN LET d == LastDepth(last_data[1], is_sell_side)
           IN  [min |-> Max(dmin, NarrowBound(d, RANGE_FACTOR_LOW, price, dec)),
                max |-> Min(dmax, NarrowBound(d, RANGE_FACTOR_HIGH, price, dec))]
      ELSE [min |-> dmin, max |-> dmax]

\* amount if is_sell_side else quote['buy_amount']: the directions swapped
ResultOfSwapped(quote, amount, is_sell_side) ==
  IF is_sell_side THEN amount ELSE quote.buy_amount

\* quote['buy_amount'] if is_sell_side else amount
ResultOf(quote, amount, is_sell_side) ==
  IF is_sell_side THEN quote.buy_amount ELSE amount

\* float(raw) if raw else 0.0: the division dropped
ToDepthUnscaled(raw) ==
  IF raw # None /\ raw[1] # 0 THEN [num |-> raw[1], den |-> 1] ELSE ZeroDepth

\* raw / 10 ** USD_TOKEN['decimals'] if raw else 0.0
ToDepth(raw) ==
  IF raw # None /\ raw[1] # 0
  THEN [num |-> raw[1], den |-> Pow10(USD_TOKEN.decimals)]
  ELSE ZeroDepth

-----------------------------------------------------------------------------
(* Initial states *)

\* rows an earlier run may have left: <<buy depth, sell depth, age in minutes>>
PriorRecords ==
  { <<20000, 1000, 6>>, <<1000, 20000, 6>>, <<0, 20000, 5>>,
    <<20000, 0, 6>>, <<20000, 20000, 4>> }

\* no row of the asset, or one row written by an earlier run
PriorRows(sym) ==
  {<<>>} \cup
  { <<[token |-> sym,
       buy_depth  |-> [num |-> r[1], den |-> 1],
       sell_depth |-> [num |-> r[2], den |-> 1],
       timestamp  |-> Now - r[3]]>> : r \in PriorRecords }

InitStores == { r1 \o r2 : r1 \in PriorRows(TOKENS[1].symbol),
                           r2 \in PriorRows(TOKENS[2].symbol) }

\* where the loop body of each variant starts
EntryPc(v)  == IF v = "app" THEN "check" ELSE "buy"
EntrySpc(v) == IF v = "app" THEN "idle" ELSE "seed"

Init ==
  /\ variant \in {"app", "lambda"}
  /\ curve \in Curves
  /\ store \in InitStores
  /\ idx = 1
  /\ pc = EntryPc(variant)
  /\ visited = <<TOKENS[1].symbol>>
  /\ data = <<>>
  /\ successful_updates = 0
  /\ buy_raw = None /\ sell_raw = None
  /\ buy_depth = ZeroDepth /\ sell_depth = ZeroDepth
  /\ spc = EntrySpc(variant)
  /\ small_quote = None
  /\ sell_price = 0 /\ min_amount = 0 /\ max_amount = 0 /\ iter = 0
  /\ start_range = None /\ warm_read = None
  /\ calls = <<>> /\ probe = None /\ ret = None /\ how = "none"
  /\ openConns = 0 /\ faults = 0
  /\ inserts = <<>> /\ raised = {} /\ checked = {}
  /\ searches = IF variant = "app" THEN <<>> ELSE <<<<TOKENS[1].symbol, FALSE>>>>

-----------------------------------------------------------------------------
(* Shared steps *)

Tok        == TOKENS[idx]
IsSellSide == pc = "sell"
SellToken  == IF IsSellSide THEN Tok ELSE USD_TOKEN
BuyToken   == IF IsSellSide THEN USD_TOKEN ELSE Tok

\* outcomes a store call may have now
Outcomes == IF faults < MaxFaults THEN StoreOutcomes ELSE {"ok"}

Fault(o) ==
  /\ faults' = IF o = "ok" THEN faults ELSE faults + 1

\* find_depth_amount not running
SearchIdle(s) ==
  /\ spc' = s
  /\ small_quote' = None
  /\ sell_price' = 0 /\ min_amount' = 0 /\ max_amount' = 0 /\ iter' = 0
  /\ start_range' = None /\ warm_read' = None
  /\ calls' = <<>> /\ probe' = None /\ ret' = None /\ how' = "none"

\* a return that an unanswered quote does not take: the loop asks again
ReturnUnlessUnavailable(value, reason) ==
  /\ spc' = IF reason = "unavailable" THEN spc ELSE "ret"
  /\ ret' = value
  /\ how' = reason

\* a return statement of find_depth_amount
Return(value, reason) ==
  /\ spc' = "ret"
  /\ ret' = value
  /\ how' = reason

\* for token in TOKENS: the loop moves to position next
EnterNext(next) ==
  /\ idx' = next
  /\ pc' = IF next <= Len(TOKENS) THEN EntryPc(variant) ELSE "done"
  /\ visited' = IF next <= Len(TOKENS)
                THEN Append(visited, TOKENS[next].symbol) ELSE visited
  /\ buy_raw' = None /\ sell_raw' = None
  /\ buy_depth' = ZeroDepth /\ sell_depth' = ZeroDepth
  /\ SearchIdle(IF next <= Len(TOKENS) THEN EntrySpc(variant) ELSE "idle")
  \* lambda_handler's loop body starts with the buy-direction call
  /\ searches' = IF next <= Len(TOKENS) /\ variant = "lambda"
                 THEN Append(searches, <<TOKENS[next].symbol, FALSE>>)
                 ELSE searches

\* the exception leaves the for loop: the run ends
AbortRun(i) == Len(TOKENS) + 1

\* where the loop goes after the except clause of position i
AfterException(i) == i + 1

Row(sym, b, s) == [Token |-> sym, Buy |-> b, Sell |-> s]

\* except Exception as e: (app.py adds a zero row; lambda_handler continues)
HandleError ==
  /\ raised' = raised \cup {Tok.symbol}
  /\ data' = IF variant = "app"
             THEN Append(data, Row(Tok.symbol, ZeroDepth, ZeroDepth)) ELSE data
  /\ successful_updates' = successful_updates
  /\ EnterNext(AfterException(idx))

-----------------------------------------------------------------------------
(* find_depth_amount *)

\* max(1, 1): the decimals dropped
SmallAmountIgnoringDecimals(dec) == Max(1, 1)

\* max(1, 10 ** (sell_token['decimals']))
SmallAmount(dec) == Max(1, Pow10(dec))

\* small_quote = fetch_quote(..., small_amount) and the default range
SeedQuote ==
  /\ pc \in {"buy", "sell"} /\ spc = "seed"
  /\ calls' = Append(calls, SmallAmount(SellToken.decimals))
  /\ \E available \in BOOLEAN, price \in SeedPrices(SellToken) :
       IF ~available
       THEN /\ small_quote' = None
            /\ Return(None, "seed_unavailable")
            /\ UNCHANGED <<sell_price, min_amount, max_amount>>
       ELSE /\ small_quote' = Some([sell_token_price_in_usd |-> price])
            /\ sell_price' = price
            /\ IF price <= 0
               THEN /\ Return(None, "bad_price")
                    /\ UNCHANGED <<min_amount, max_amount>>
               ELSE /\ spc' = "warm"
                    /\ min_amount' = DefaultBound(MIN_AMOUNT_USD, price,
                                                  SellToken.decimals)
                    /\ max_amount' = DefaultBound(MAX_AMOUNT_USD, price,
                                                  SellToken.decimals)
                    /\ UNCHANGED <<ret, how>>
  /\ UNCHANGED <<start_range, warm_read, iter, probe>>
  /\ UNCHANGED <<variant, curve, store, orchVars, histVars>>

\* last_data = get_latest_depths(token_symbol) and the narrowing
WarmStart ==
  /\ pc \in {"buy", "sell"} /\ spc = "warm"
  /\ \E o \in Outcomes :
       LET got == get_latest_depths(variant, o, store, Tok.symbol)
           rng == NarrowedRange(got.value, IsSellSide, sell_price, SellToken.decimals)
       IN  /\ Fault(o)
           /\ openConns' = openConns + got.open
           /\ IF got.raised
              THEN /\ HandleError
                   /\ UNCHANGED inserts
              ELSE /\ spc' = "loop"
                   /\ min_amount' = rng.min
                   /\ max_amount' = rng.max
                   /\ start_range' = Some(rng)
                   /\ warm_read' = Some([value |-> got.value, failed |-> o # "ok"])
                   /\ UNCHANGED <<small_quote, sell_price, iter, calls, probe, ret, how>>
                   /\ UNCHANGED <<orchVars, inserts, searches, raised>>
  /\ UNCHANGED <<variant, curve, store, checked>>

\* min_amount + max_amount // 2: the division binds first
MidpointUnparenthesised(lo, hi) == lo + (hi \div 2)

\* (min_amount + max_amount) // 2
Midpoint(lo, hi) == (lo + hi) \div 2

\* one iteration of for _ in range(MAX_ITERATIONS)
Probe ==
  /\ pc \in {"buy", "sell"} /\ spc = "loop"
  /\ LET amount == Midpoint(min_amount, max_amount)
     IN  IF amount = 0
         THEN /\ Return(None, "zero_amount")
              /\ UNCHANGED <<min_amount, max_amount, iter, calls, probe>>
         ELSE
           /\ calls' = Append(calls, amount)
           /\ \E available \in BOOLEAN :
                IF ~available
                THEN /\ Return(None, "unavailable")
                     /\ UNCHANGED <<min_amount, max_amount, iter, probe>>
                ELSE
                  LET quote    == fetch_quote(curve, SellToken, BuyToken, amount, sell_price)
                      slippage == compute_slippage(quote, SellToken.decimals,
                                                   BuyToken.decimals)
                      lo       == IF BelowTarget(slippage) THEN amount ELSE min_amount
                      hi       == IF BelowTarget(slippage) THEN max_amount ELSE amount
                  IN  /\ probe' = Some([amount |-> amount, quote |-> quote])
                      /\ IF WithinTolerance(slippage)
                         THEN /\ Return(Some(ResultOf(quote, amount, IsSellSide)), "converged")
                              /\ UNCHANGED <<min_amount, max_amount, iter>>
                         ELSE /\ min_amount' = lo
                              /\ max_amount' = hi
                              /\ iter' = iter + 1
                              /\ IF hi - lo <= 10
                                 THEN Return(Some(ResultOf(quote, amount, IsSellSide)),
                                             "collapsed")
                                 ELSE IF iter + 1 = MAX_ITERATIONS
                                 THEN Return(None, "exhausted")
                                 ELSE UNCHANGED <<spc, ret, how>>
  /\ UNCHANGED <<small_quote, sell_price, start_range, warm_read>>
  /\ UNCHANGED <<variant, curve, store, orchVars, histVars>>

-----------------------------------------------------------------------------
(* The orchestrators *)

\* last_data and (datetime.now() - last_data[2]) <= timedelta(minutes=5)
IsFreshInclusive(last_data) ==
  last_data # None /\ Now - last_data[1].timestamp <= FRESH_MINUTES

\* last_data and (datetime.now() - last_data[2]) < timedelta(minutes=5)
IsFresh(last_data) ==
  last_data # None /\ Now - last_data[1].timestamp < FRESH_MINUTES

\* app.py: last_data = get_latest_depths(...) and the freshness test
AppCheck ==
  /\ variant = "app" /\ pc = "check"
  /\ \E o \in Outcomes :
       LET got == get_latest_depths(variant, o, store, Tok.symbol)
           last_data == got.value
       IN  /\ Fault(o)
           /\ openConns' = openConns + got.open
           /\ checked' = IF got.raised THEN checked ELSE checked \cup {Tok.symbol}
           /\ IF got.raised
              THEN HandleError
              ELSE IF IsFresh(last_data)
              THEN /\ pc' = "hist"
                   /\ buy_depth' = last_data[1].buy_depth
                   /\ sell_depth' = last_data[1].sell_depth
                   /\ UNCHANGED <<idx, visited, data, successful_updates,
                                  buy_raw, sell_raw>>
                   /\ UNCHANGED <<searchVars, searches, raised>>
              ELSE /\ pc' = "buy"
                   /\ SearchIdle("seed")
                   /\ searches' = Append(searches, <<Tok.symbol, FALSE>>)
                   /\ UNCHANGED <<idx, visited, data, successful_updates,
                                  buy_raw, sell_raw, buy_depth, sell_depth>>
                   /\ UNCHANGED raised
  /\ UNCHANGED <<variant, curve, store, inserts>>

\* the buy depth is inserted as soon as its search returns, before the
\* sell-direction search
FinishBuyThenInsert ==
  /\ pc = "buy" /\ spc = "ret"
  /\ buy_raw' = ret
  /\ buy_depth' = ToDepth(ret)
  /\ pc' = "sell"
  /\ SearchIdle("seed")
  /\ searches' = Append(searches, <<Tok.symbol, TRUE>>)
  /\ store' = Append(store, [token |-> Tok.symbol, buy_depth |-> ToDepth(ret),
                              sell_depth |-> ZeroDepth, timestamp |-> Now])
  /\ inserts' = Append(inserts, Tok.symbol)
  /\ UNCHANGED <<idx, visited, data, successful_updates, sell_raw, sell_depth>>
  /\ UNCHANGED <<variant, curve, openConns, faults, raised, checked>>

\* buy_depth_raw = find_depth_amount(USD_TOKEN, token, False, ...) returned
FinishBuy ==
  /\ pc = "buy" /\ spc = "ret"
  /\ buy_raw' = ret
  /\ buy_depth' = ToDepth(ret)
  /\ pc' = "sell"
  /\ SearchIdle("seed")
  /\ searches' = Append(searches, <<Tok.symbol, TRUE>>)
  /\ UNCHANGED <<idx, visited, data, successful_updates, sell_raw, sell_depth>>
  /\ UNCHANGED <<variant, curve, store, openConns, faults, inserts, raised, checked>>

\* sell_depth_raw = find_depth_amount(token, USD_TOKEN, True, ...) returned
FinishSell ==
  /\ pc = "sell" /\ spc = "ret"
  /\ sell_raw' = ret
  /\ sell_depth' = ToDepth(ret)
  /\ pc' = "persist"
  /\ SearchIdle("idle")
  /\ UNCHANGED <<idx, visited, data, successful_updates, buy_raw, buy_depth>>
  /\ UNCHANGED <<variant, curve, store, histVars>>

\* both variants insert unconditionally
ShouldInsertAlways(v, b, s) == TRUE

\* both variants insert only positive depths
ShouldInsertPositive(v, b, s) == b.num > 0 /\ s.num > 0

\* whether the variant calls insert_depths for these depths
ShouldInsert(v, b, s) == v = "app" \/ (b.num > 0 /\ s.num > 0)

\* the insert_depths call of the loop body, or lambda_handler's skip
Persist ==
  /\ pc = "persist"
  /\ IF ShouldInsert(variant, buy_depth, sell_depth)
     THEN \E o \in Outcomes :
            LET done == insert_depths(variant, o, store, Tok.symbol,
                                      buy_depth, sell_depth)
            IN  /\ Fault(o)
                /\ openConns' = openConns + done.open
                /\ inserts' = Append(inserts, Tok.symbol)
                /\ store' = done.store
                /\ IF done.raised
                   THEN HandleError
                   ELSE IF variant = "app"
                   THEN /\ pc' = "hist"
                        /\ UNCHANGED <<idx, visited, data, successful_updates,
                                       buy_raw, sell_raw, buy_depth, sell_depth>>
                        /\ UNCHANGED <<searchVars, searches, raised>>
                   ELSE /\ successful_updates' = successful_updates + 1
                        /\ EnterNext(idx + 1)
                        /\ UNCHANGED <<data, raised>>
     ELSE /\ EnterNext(idx + 1)
          /\ UNCHANGED <<data, successful_updates, store>>
          /\ UNCHANGED <<openConns, faults, inserts, raised>>
  /\ UNCHANGED <<variant, curve, checked>>

\* app.py: data.append(row) and get_historical_depths(...)
AppHistory ==
  /\ variant = "app" /\ pc = "hist"
  /\ \E o \in Outcomes :
       LET got  == get_historical_depths(o)
           rows == Append(data, Row(Tok.symbol, buy_depth, sell_depth))
       IN  /\ Fault(o)
           /\ openConns' = openConns + got.open
           /\ IF got.raised
              THEN /\ raised' = raised \cup {Tok.symbol}
                   /\ data' = Append(rows, Row(Tok.symbol, ZeroDepth, ZeroDepth))
                   /\ EnterNext(AfterException(idx))
              ELSE /\ data' = rows
                   /\ EnterNext(idx + 1)
                   /\ UNCHANGED raised
           /\ UNCHANGED successful_updates
  /\ UNCHANGED <<variant, curve, store, inserts, checked>>

Next ==
  \/ AppCheck
  \/ SeedQuote
  \/ WarmStart
  \/ Probe
  \/ FinishBuy
  \/ FinishSell
  \/ Persist
  \/ AppHistory

Spec == Init /\ [][Next]_vars

\* the run is sequential and every call returns or times out
FairSpec == Spec /\ WF_vars(Next)

-----------------------------------------------------------------------------
(* What the claims speak of *)

Searching == pc \in {"buy", "sell"}
Returned  == Searching /\ spc = "ret"

\* every oracle call of this invocation was answered, with a positive seed price
OracleNeverFailed ==
  /\ small_quote # None
  /\ small_quote[1].sell_token_price_in_usd > 0
  /\ how # "unavailable"

LoopProbes == Len(calls) - 1

\* the loop started with min_amount <= max_amount
StartedProper == start_range # None /\ start_range[1].min <= start_range[1].max

\* the value returned is the direction's value of the last probe
FromLastProbe ==
  /\ probe # None
  /\ probe[1].amount = calls[Len(calls)]
  /\ ret = Some(ResultOf(probe[1].quote, probe[1].amount, IsSellSide))

ProbeSlippage ==
  compute_slippage(probe[1].quote, SellToken.decimals, BuyToken.decimals)

\* 0.019 < slippage < 0.021
InBand(s) ==
  /\ SlipCmp(s, [num |-> 19, den |-> 1000]) = 1
  /\ SlipCmp(s, [num |-> 21, den |-> 1000]) = -1

-----------------------------------------------------------------------------
(* C1 *)

\* C1, as stated: with a monotone oracle that never fails, find_depth_amount
\* returns a value of a probe whose slippage is within 0.001 of 0.02, or None
\* after exactly MAX_ITERATIONS loop probes, and nothing else.  (Stated for
\* the searches whose loop starts with min_amount <= max_amount, so that a
\* violation does not rest on the inverted start of C2.)
C1_AsStated ==
  (Returned /\ Monotone(curve) /\ OracleNeverFailed /\ StartedProper) =>
     \/ ret # None /\ FromLastProbe /\ InBand(ProbeSlippage)
     \/ ret = None /\ LoopProbes = MAX_ITERATIONS

\* C1, amended: with a monotone oracle that never fails, find_depth_amount
\* returns the value of its last probe, whose slippage is within 0.001 of
\* 0.02 or after which the interval is at most 10 wide (range collapse), or
\* None after exactly MAX_ITERATIONS loop probes, and nothing else.
C1_Outcomes ==
  (Returned /\ Monotone(curve) /\ OracleNeverFailed) =>
     \/ ret # None /\ FromLastProbe /\ InBand(ProbeSlippage)
     \/ ret # None /\ FromLastProbe /\ ~InBand(ProbeSlippage)
          /\ max_amount - min_amount <= 10
     \/ ret = None /\ LoopProbes = MAX_ITERATIONS

\* a search over a proper interval that ended by range collapse, out of band
C1_Witness ==
  /\ Returned /\ Monotone(curve) /\ OracleNeverFailed
  /\ ret # None /\ ~InBand(ProbeSlippage)
  /\ StartedProper /\ max_amount - min_amount <= 10

-----------------------------------------------------------------------------
(* C2 *)

\* C2, as stated: the interval the binary search starts with is never
\* inverted, whatever the seed price and the prior depth.
C2_NeverInverted ==
  (Searching /\ spc = "loop" /\ iter = 0) => min_amount <= max_amount

-----------------------------------------------------------------------------
(* C3 *)

\* C3: when the seed quote is unavailable or its sell price is <= 0, the
\* invocation has returned None and its only oracle call is the seed call,
\* for one whole unit of the sell asset.
C3_SeedFailure ==
  (/\ Searching /\ Len(calls) >= 1
   /\ \/ small_quote = None
      \/ small_quote[1].sell_token_price_in_usd <= 0)
  => /\ spc = "ret"
     /\ ret = None
     /\ calls = <<Pow10(SellToken.decimals)>>

\* a sell-side search that got a seed quote with price 0
C3_Witness ==
  /\ pc = "sell" /\ spc = "ret"
  /\ small_quote # None /\ small_quote[1].sell_token_price_in_usd = 0
  /\ ret = None /\ Len(calls) = 1

-----------------------------------------------------------------------------
(* What the orchestrator claims speak of *)

Positions == 1..Len(TOKENS)
VisitOrder == [i \in Positions |-> TOKENS[i].symbol]

Count(seq, x) == Cardinality({k \in 1..Len(seq) : seq[k] = x})
Searched(sym, side) == \E k \in 1..Len(searches) : searches[k] = <<sym, side>>

\* the rows earlier runs wrote, and those this run wrote
WrittenBefore(r) == r.timestamp < Now
PriorStore == SelectSeq(store, WrittenBefore)
RunRows(sym) == {k \in 1..Len(store) : store[k].token = sym /\ store[k].timestamp = Now}

\* the asset's latest row at the start of the run is younger than 5 minutes
FreshAtCheck(sym) ==
  LET prior == Latest(PriorStore, sym)
  IN  prior # None /\ Now - prior[1].timestamp < 5

\* app.py has taken the freshness decision of position i
Decided(i) == i < idx \/ (i = idx /\ pc # "check")
\* the loop body of position i is over
Finished(i) == i < idx

\* raw / 10 ^ reference decimals, or 0.0 for None, in lowest terms
DepthOf(raw) ==
  IF raw = None THEN ZeroDepth ELSE Rat(raw[1], Pow10(USD_TOKEN.decimals))
SameDepth(d, e) == Rat(d.num, d.den) = e

-----------------------------------------------------------------------------
(* C4 *)

\* C4, as stated: in app.py an asset whose latest row is younger than 5
\* minutes gets its depths reused, no oracle call and no append; an asset
\* with no row, or whose latest row is 5 minutes old or older, gets both
\* direction searches.  (Stated for the assets whose freshness read returned.)
C4_AsStated ==
  variant = "app" =>
    \A i \in Positions :
      LET sym == TOKENS[i].symbol
          prior == Latest(PriorStore, sym)
      IN  (Finished(i) /\ sym \in checked) =>
            IF FreshAtCheck(sym)
            THEN /\ ~Searched(sym, FALSE) /\ ~Searched(sym, TRUE)
                 /\ Count(inserts, sym) = 0
                 /\ \E k \in 1..Len(data) :
                      data[k] = Row(sym, prior[1].buy_depth, prior[1].sell_depth)
            ELSE Searched(sym, FALSE) /\ Searched(sym, TRUE)

\* C4, amended: in app.py an asset whose latest row is younger than 5
\* minutes gets its depths reused, no oracle call and no append; an asset
\* with no row, or whose latest row is 5 minutes old or older, gets the
\* buy-direction search, and the sell-direction search once the buy-direction
\* search has returned: a store failure raised inside the buy-direction search
\* ends the asset without a sell-direction search.  An asset whose freshness
\* read raises gets no search and no append.
C4_Freshness ==
  variant = "app" =>
    \A i \in Positions :
      LET sym == TOKENS[i].symbol
          prior == Latest(PriorStore, sym)
      IN  /\ (Decided(i) /\ sym \in checked) =>
               IF FreshAtCheck(sym)
               THEN /\ ~Searched(sym, FALSE) /\ ~Searched(sym, TRUE)
                    /\ Count(inserts, sym) = 0
                    /\ RunRows(sym) = {}
                    /\ i = idx =>
                         /\ pc = "hist"
                         /\ buy_depth = prior[1].buy_depth
                         /\ sell_depth = prior[1].sell_depth
                    /\ Finished(i) =>
                         \E k \in 1..Len(data) :
                           data[k] = Row(sym, prior[1].buy_depth, prior[1].sell_depth)
               ELSE /\ Searched(sym, FALSE)
                    /\ ((Finished(i) /\ sym \notin raised)
                        \/ (i = idx /\ pc \in {"sell", "persist", "hist"}))
                       => Searched(sym, TRUE)
          /\ (Decided(i) /\ sym \notin checked) =>
               /\ ~Searched(sym, FALSE) /\ ~Searched(sym, TRUE)
               /\ Count(inserts, sym) = 0

\* app.py has finished an asset with a stale row after both searches and one
\* insert, and reuses the 4 minutes old row of the next
C4_Witness ==
  /\ variant = "app" /\ idx = 2 /\ pc = "hist"
  /\ ~FreshAtCheck(TOKENS[1].symbol) /\ Latest(PriorStore, TOKENS[1].symbol) # None
  /\ Searched(TOKENS[1].symbol, FALSE) /\ Searched(TOKENS[1].symbol, TRUE)
  /\ TOKENS[1].symbol \notin raised /\ Count(inserts, TOKENS[1].symbol) = 1
  /\ FreshAtCheck(TOKENS[2].symbol) /\ ~Searched(TOKENS[2].symbol, FALSE)
  /\ buy_depth = Latest(PriorStore, TOKENS[2].symbol)[1].buy_depth

-----------------------------------------------------------------------------
(* C5 *)

\* C5: whatever fails, the run of either variant enters the loop body of
\* every asset of TOKENS once, in registry order, and then completes.
C5_RunCompletes ==
  /\ [](/\ Len(visited) <= Len(TOKENS)
        /\ visited = SubSeq(VisitOrder, 1, Len(visited)))
  /\ [](pc = "done" => visited = VisitOrder)
  /\ <>(pc = "done")

\* a run that completed although the first asset ended in the except clause
C5_Witness ==
  /\ pc = "done" /\ visited = VisitOrder
  /\ TOKENS[1].symbol \in raised

-----------------------------------------------------------------------------
(* C6 *)

\* C6: a direction whose search returned None has depth 0.0 and the other
\* direction's search of the asset is still invoked; a result r has depth
\* r / 10^(reference decimals).
C6_Degrade ==
  /\ pc \in {"sell", "persist"} =>
       /\ SameDepth(buy_depth, DepthOf(buy_raw))
       /\ Searched(Tok.symbol, TRUE)
  /\ pc = "persist" =>
       /\ SameDepth(sell_depth, DepthOf(sell_raw))
       /\ Searched(Tok.symbol, FALSE)

\* the buy direction failed and the sell direction then found a depth
C6_Witness ==
  /\ pc = "persist"
  /\ buy_raw = None /\ buy_depth = ZeroDepth
  /\ sell_raw # None /\ sell_depth.num > 0 /\ sell_depth.den = 10

-----------------------------------------------------------------------------
(* C7 *)

\* C7: lambda_handler appends a row only when both searches returned a value
\* and both depths are > 0; when a direction returned None it does not call
\* insert_depths at all.
C7_LambdaPersists ==
  [][ variant = "lambda" =>
        /\ store' # store =>
             /\ buy_raw # None /\ sell_raw # None
             /\ buy_depth.num > 0 /\ sell_depth.num > 0
             /\ store' = Append(store, [token |-> Tok.symbol,
                                        buy_depth |-> buy_depth,
                                        sell_depth |-> sell_depth,
                                        timestamp |-> Now])
        /\ (pc = "persist" /\ (buy_raw = None \/ sell_raw = None)) =>
             (store' = store /\ inserts' = inserts) ]_vars

\* lambda_handler wrote a row for one asset and skipped the other
C7_Witness ==
  /\ variant = "lambda" /\ pc = "done"
  /\ \E i, j \in Positions :
       /\ RunRows(TOKENS[i].symbol) # {}
       /\ RunRows(TOKENS[j].symbol) = {} /\ Count(inserts, TOKENS[j].symbol) = 0
       /\ TOKENS[j].symbol \notin raised

-----------------------------------------------------------------------------
(* C8 *)

\* C8: in app.py a recomputation that does not raise ends with exactly one
\* insert_depths call for the asset, whose row carries the depths computed,
\* degraded or not; no insert_depths call happens before both searches.
C8_AppPersists ==
  variant = "app" =>
    \A i \in Positions :
      LET sym == TOKENS[i].symbol
      IN  /\ (/\ Searched(sym, FALSE) /\ sym \notin raised
              /\ (Finished(i) \/ (i = idx /\ pc = "hist")))
             => /\ Count(inserts, sym) = 1
                /\ Cardinality(RunRows(sym)) = 1
          /\ (i = idx /\ pc = "hist" /\ Searched(sym, FALSE))
             => Latest(store, sym) =
                  Some([token |-> sym, buy_depth |-> buy_depth,
                        sell_depth |-> sell_depth, timestamp |-> Now])
          /\ (i = idx /\ pc \in {"buy", "sell", "persist"})
             => Count(inserts, sym) = 0

\* app.py has inserted the zero depths of two failed searches
C8_Witness ==
  /\ variant = "app" /\ pc = "hist"
  /\ Searched(Tok.symbol, FALSE) /\ Searched(Tok.symbol, TRUE)
  /\ buy_raw = None /\ sell_raw = None
  /\ Count(inserts, Tok.symbol) = 1
  /\ Latest(store, Tok.symbol)[1].buy_depth = ZeroDepth
  /\ Latest(store, Tok.symbol)[1].sell_depth = ZeroDepth
  /\ Latest(store, Tok.symbol)[1].timestamp = Now

-----------------------------------------------------------------------------
(* C9 *)

\* C9, as stated: after every store access (insert_depths, get_latest_depths,
\* get_historical_depths), failed or not, no connection it opened is open.
C9_ConnectionsReleased == openConns = 0

-----------------------------------------------------------------------------
(* C10 *)

\* C10: the store only grows by appending; a step that changes it appends one
\* row, of the asset being processed, for which no insert_depths call was made
\* before in the run, and leaves every row already there as it was.
C10_AppendOnly ==
  [][ store' # store =>
        /\ pc = "persist"
        /\ Count(inserts, Tok.symbol) = 0
        /\ Len(store') = Len(store) + 1
        /\ SubSeq(store', 1, Len(store)) = store
        /\ store'[Len(store')].token = Tok.symbol ]_vars

\* a row of this run stands behind the rows of earlier runs
C10_Witness ==
  /\ Len(PriorStore) = 2
  /\ Len(store) = 4
  /\ \A i \in Positions : Cardinality(RunRows(TOKENS[i].symbol)) = 1

-----------------------------------------------------------------------------
(* C11 *)

IsPrefix(p, q) == Len(p) <= Len(q) /\ \A k \in 1..Len(p) : p[k] = q[k]

\* find_depth_amount's loop as a function of its inputs, every quote answered:
\* the amounts requested and the value returned.  The venue's levels are
\* constant between the thresholds t1 and t2 (raw units), so the branch a
\* probe takes is read off its level.
RECURSIVE RefLoop(_, _, _, _, _, _, _, _)
RefLoop(c, t1, t2, is_sell_side, lo, hi, i, requested) ==
  LET amount == (lo + hi) \div 2
      level  == IF amount < t1 THEN c.l1 ELSE IF amount < t2 THEN c.l2 ELSE c.l3
      below  == LevelRank(level) < LevelRank("hit")
      value  == IF ~is_sell_side THEN amount
                ELSE IF level = "inf" THEN 0 ELSE 2 * amount
  IN  IF i = MAX_ITERATIONS \/ amount = 0
      THEN [calls |-> requested, ret |-> None]
      ELSE IF level = "hit" \/ (below /\ hi - amount <= 10) \/ (~below /\ amount - lo <= 10)
      THEN [calls |-> Append(requested, amount), ret |-> Some(value)]
      ELSE IF below
      THEN RefLoop(c, t1, t2, is_sell_side, amount, hi, i + 1,
                   Append(requested, amount))
      ELSE RefLoop(c, t1, t2, is_sell_side, lo, amount, i + 1,
                   Append(requested, amount))

\* find_depth_amount as a function of its arguments, the oracle (seed price
\* and curve) and the row of the asset in the store
RefSearch(c, sell_token, buy_token, is_sell_side, price, row) ==
  LET rng == NarrowedRange(row, is_sell_side, price, sell_token.decimals)
  IN  RefLoop(c, CeilMulDiv(c.t1, Pow10(sell_token.decimals), price),
              CeilMulDiv(c.t2, Pow10(sell_token.decimals), price),
              is_sell_side, rng.min, rng.max, 0,
              <<SmallAmount(sell_token.decimals)>>)

\* the invocation's requests and result are those the function gives for the
\* store's contents, cut at the first request the oracle left unanswered
SameAsFunctionOfStore ==
  LET ref == RefSearch(curve, SellToken, BuyToken, IsSellSide, sell_price,
                       Latest(store, Tok.symbol))
  IN  IF how = "unavailable"
      THEN ret = None /\ IsPrefix(calls, ref.calls)
      ELSE ref = [calls |-> calls, ret |-> ret]

-----------------------------------------------------------------------------
(* C12 *)

\* C12: an unanswered quote inside the loop makes find_depth_amount return
\* None at once, that request being its last; an invocation makes at most
\* 1 + MAX_ITERATIONS (21) oracle calls, one per loop iteration after the
\* seed call; and a loop that runs out of iterations returns None.
C12_NoRetry ==
  Searching =>
    /\ Len(calls) <= 21
    /\ iter <= MAX_ITERATIONS
    /\ spc = "loop" => (iter < MAX_ITERATIONS /\ Len(calls) = iter + 1)
    /\ how = "unavailable" =>
         /\ spc = "ret" /\ ret = None
         /\ Len(calls) = iter + 2
    /\ how = "exhausted" =>
         /\ spc = "ret" /\ ret = None
         /\ iter = MAX_ITERATIONS /\ Len(calls) = 1 + MAX_ITERATIONS

\* the loop's third quote was left unanswered
C12_Witness ==
  /\ Returned /\ how = "unavailable" /\ Len(calls) = 4 /\ probe # None

-----------------------------------------------------------------------------
(* C13 *)

\* C13: when the loop starts with min_amount <= max_amount, every iteration
\* probes an amount with min_amount <= amount <= max_amount, its update of
\* one bound keeps min_amount <= max_amount, and the interval stays inside
\* the one the loop started with.
C13_StepInvariant ==
  [][ (Searching /\ spc = "loop" /\ StartedProper) =>
        /\ min_amount <= max_amount
        /\ start_range[1].min <= min_amount /\ max_amount <= start_range[1].max
        /\ Len(calls') = Len(calls) + 1 =>
             /\ min_amount <= calls'[Len(calls')]
             /\ calls'[Len(calls')] <= max_amount
        /\ min_amount <= min_amount' /\ min_amount' <= max_amount'
        /\ max_amount' <= max_amount
        /\ (min_amount' # min_amount \/ max_amount' # max_amount) =>
             /\ probe' # None
             /\ \/ min_amount' = probe'[1].amount /\ max_amount' = max_amount
                \/ max_amount' = probe'[1].amount /\ min_amount' = min_amount
    ]_vars

\* a search whose two bounds have both moved inside a proper start interval
C13_Witness ==
  /\ Searching /\ spc = "loop" /\ StartedProper /\ iter >= 2
  /\ start_range[1].min < min_amount /\ max_amount < start_range[1].max
  /\ min_amount < max_amount

-----------------------------------------------------------------------------
(* C14 *)

\* C14: a value returned by find_depth_amount comes from the convergence
\* return (slippage within 0.001 of 0.02) or from the range-collapse return
\* (max_amount - min_amount <= 10 after the bound update, slippage not within
\* the tolerance); it is the last probe's buy_amount when is_sell_side and
\* the last probed amount otherwise; and at least one loop probe precedes it.
C14_ResultSelection ==
  (Returned /\ ret # None) =>
    /\ how \in {"converged", "collapsed"}
    /\ Len(calls) >= 2 /\ iter + (IF how = "converged" THEN 2 ELSE 1) = Len(calls)
    /\ probe # None
    /\ probe[1].amount = calls[Len(calls)]
    /\ probe[1].quote.sell_amount = probe[1].amount
    /\ ret[1] = IF pc = "sell" THEN probe[1].quote.buy_amount ELSE probe[1].amount
    /\ how = "converged" => InBand(ProbeSlippage)
    /\ how = "collapsed" => (~InBand(ProbeSlippage) /\ max_amount - min_amount <= 10)

\* a sell-direction search returned by range collapse the buy_amount of its
\* last quote, which is not the amount probed
C14_Witness ==
  /\ Returned /\ pc = "sell" /\ how = "collapsed"
  /\ ret = Some(probe[1].quote.buy_amount)
  /\ ret[1] # probe[1].amount /\ ret[1] > 0

-----------------------------------------------------------------------------
(* C15 *)

\* C15: with defaultMin = ceil(10000 / seed * 10^dec) and defaultMax =
\* ceil(500000000 / seed * 10^dec), a search whose warm-start read gave a row
\* with a depth > 0 for its direction (sell_depth when is_sell_side, else
\* buy_depth) starts its loop with min = max(defaultMin, ceil(prior * 0.5))
\* and max = min(defaultMax, ceil(prior * 2.0)), prior being that depth in
\* raw units, so min >= defaultMin and max <= defaultMax; a search whose read
\* gave no row, or a depth of 0, starts with [defaultMin, defaultMax].  A
\* prior of 20000 at a seed price of 1 unit per raw unit gives
\* [10000, 40000].
C15_InitialRange ==
  (Searching /\ warm_read # None) =>
    LET dec   == SellToken.decimals
        dmin  == CeilMulDiv(10000, Pow10(dec), sell_price)
        dmax  == CeilMulDiv(500000000, Pow10(dec), sell_price)
        row   == warm_read[1].value
        d     == IF pc = "sell" THEN row[1].sell_depth ELSE row[1].buy_depth
        half  == CeilMulDiv(d.num, Pow10(dec), 2 * d.den * sell_price)
        twice == CeilMulDiv(2 * d.num, Pow10(dec), d.den * sell_price)
        start == start_range[1]
    IN  /\ start_range # None
        /\ ~warm_read[1].failed => row = Latest(store, Tok.symbol)
        /\ (spc = "loop" /\ iter = 0) =>
              (min_amount = start.min /\ max_amount = start.max)
        /\ IF row # None /\ d.num > 0
           THEN /\ start.min = (IF dmin >= half THEN dmin ELSE half)
                /\ start.max = (IF dmax <= twice THEN dmax ELSE twice)
                /\ start.min >= dmin /\ start.max <= dmax
                /\ (pc = "sell" /\ dec = 0 /\ sell_price = 1
                      /\ d = [num |-> 20000, den |-> 1]) =>
                     start = [min |-> 10000, max |-> 40000]
           ELSE start = [min |-> dmin, max |-> dmax]

\* the loop is about to start from [10000, 40000], narrowed from a prior
\* sell depth of 20000
C15_Witness ==
  /\ pc = "sell" /\ spc = "loop" /\ iter = 0
  /\ warm_read # None /\ warm_read[1].value # None
  /\ warm_read[1].value[1].sell_depth = [num |-> 20000, den |-> 1]
  /\ SellToken.decimals = 0 /\ sell_price = 1
  /\ min_amount = 10000 /\ max_amount = 40000

-----------------------------------------------------------------------------
(* C16 *)

\* the step is a loop iteration whose quote was answered
ProbeAnswered ==
  /\ Searching /\ spc = "loop"
  /\ Len(calls') = Len(calls) + 1
  /\ how' # "unavailable"

\* buy_amount * buy_token_price_in_usd = 0, without forming the product
Degenerate(quote) == quote.buy_amount = 0 \/ quote.buy_token_price_in_usd = 0

\* C16: for a probe whose quote has buy_amount * buy_token_price_in_usd = 0,
\* compute_slippage gives positive infinity, the iteration does not return by
\* convergence, and it lowers the upper bound to the probed amount, leaving
\* the lower bound alone.
C16_DegenerateQuote ==
  [][ (ProbeAnswered /\ Degenerate(probe'[1].quote)) =>
        /\ compute_slippage(probe'[1].quote, SellToken.decimals,
                             BuyToken.decimals).inf
        /\ how' # "converged"
        /\ max_amount' = probe'[1].amount
        /\ probe'[1].amount = calls'[Len(calls')]
        /\ min_amount' = min_amount
        /\ iter' = iter + 1
    ]_vars

\* a quote without a buy price has lowered the upper bound of a search that
\* goes on
C16_Witness ==
  /\ Searching /\ spc = "loop" /\ probe # None
  /\ Degenerate(probe[1].quote)
  /\ probe[1].quote.buy_amount > 0
  /\ max_amount = probe[1].amount /\ min_amount < max_amount

-----------------------------------------------------------------------------
(* C17 *)

LastSearch == searches[Len(searches)]

\* C17: find_depth_amount never writes the store; for an asset recomputed the
\* buy-direction search comes first, the sell-direction search second and the
\* append, if any, third and once: no row of the asset is appended while its
\* searches run, so the warm-start reads of both directions that succeed
\* give the same row, the asset's latest one from before the run.
C17_WriteOrdering ==
  [][ /\ Searching =>
           /\ store' = store /\ inserts' = inserts
           /\ RunRows(Tok.symbol) = {} /\ Count(inserts, Tok.symbol) = 0
           /\ LastSearch = <<Tok.symbol, pc = "sell">>
           /\ pc = "sell" =>
                (Len(searches) >= 2 /\ searches[Len(searches) - 1] = <<Tok.symbol, FALSE>>)
           /\ (warm_read # None /\ ~warm_read[1].failed) =>
                warm_read[1].value = Latest(PriorStore, Tok.symbol)
      /\ inserts' # inserts =>
           /\ pc = "persist" /\ spc = "idle"
           /\ inserts' = Append(inserts, Tok.symbol)
           /\ Count(inserts, Tok.symbol) = 0
           /\ Len(searches) >= 2
           /\ LastSearch = <<Tok.symbol, TRUE>>
           /\ searches[Len(searches) - 1] = <<Tok.symbol, FALSE>>
      /\ store' # store => inserts' # inserts
    ]_vars

\* the sell-direction search has read the row the buy-direction search, now
\* returned with a value, was narrowed by
C17_Witness ==
  /\ pc = "sell" /\ spc = "loop" /\ buy_raw # None
  /\ warm_read # None /\ ~warm_read[1].failed /\ warm_read[1].value # None
  /\ warm_read[1].value = Latest(store, Tok.symbol)
  /\ warm_read[1].value[1].buy_depth.num > 0
  /\ warm_read[1].value[1].sell_depth.num > 0

-----------------------------------------------------------------------------
(* C18 *)

\* C18, as stated: a value returned by a buy-direction search is a probed
\* amount within the default bounds, ceil(10000 / seed * 10^dec) <= value <=
\* ceil(500000000 / seed * 10^dec), whatever the store and the oracle.
C18_WithinDefaultBounds ==
  (Returned /\ pc = "buy" /\ ret # None) =>
    /\ probe # None /\ ret[1] = probe[1].amount
    /\ CeilMulDiv(10000, Pow10(SellToken.decimals), sell_price) <= ret[1]
    /\ ret[1] <= CeilMulDiv(500000000, Pow10(SellToken.decimals), sell_price)

-----------------------------------------------------------------------------
(* C19 *)

\* C19, as stated: when a lambda_handler run ends, successful_updates is the
\* number of rows the run committed to the store, also when an INSERT or a
\* commit failed inside insert_depths.
C19_CountMatchesStore ==
  (variant = "lambda" /\ pc = "done") =>
    successful_updates = Len(store) - Len(PriorStore)

====
